---- MODULE Spec2Model ----
(***************************************************************************)
(* AutoFolio: the pairwise tournament selector (PairwiseClassifier), the   *)
(* fit/predict orchestrator (AutoFolio.fit, AutoFolio.predict) and the     *)
(* cross-validation evaluator (AutoFolio.run_cv).                          *)
(*                                                                         *)
(* Python indices are kept as in the source (0-based); a TLA+ sequence is  *)
(* read at index + 1.  A raised exception is a record [exc |-> <name>].    *)
(***************************************************************************)
EXTENDS Integers, Sequences, FiniteSets, TLC

VARIABLES
    pc,                    \* position of the session / of run_cv
    train,                 \* the scenario handed to the last AutoFolio.fit
    feature_pre_pipeline,  \* AutoFolio.fit's first result
    pre_solver,            \* AutoFolio.fit's second result
    selector,              \* AutoFolio.fit's third result (a PairwiseClassifier)
    call,                  \* the arguments of the last AutoFolio.predict
    scores,                \* PairwiseClassifier.predict's vote matrix
    pred_schedules,        \* what selector.predict returned
    schedules,             \* what AutoFolio.predict returned
    raised,                \* the exception that left the last call, or NoExc
    cv                     \* run_cv's locals

vars == <<pc, train, feature_pre_pipeline, pre_solver, selector, call,
          scores, pred_schedules, schedules, raised, cv>>

-----------------------------------------------------------------------------
(* Bounds and data                                                         *)

MaxAlgos == 3

MaxFolds == 2

\* A time budget is hi * 2**31 + lo with 0 <= lo < 2**31: Python integers do
\* not overflow, and 2**31 itself is outside the checker's integers.
Num(n) == [hi |-> 0, lo |-> n]

\* the value predict uses when the scenario has no cutoff: 2**31
NoCutoff == [hi |-> 1, lo |-> 0]

PlusOne(v) == IF v.lo = 2147483647 THEN [hi |-> v.hi + 1, lo |-> 0]
              ELSE [hi |-> v.hi, lo |-> v.lo + 1]

AlgoNames == <<"A1", "A2", "A3", "A4", "A5">>

Algos == {AlgoNames[n] : n \in 1..MaxAlgos}

PerfValues == {1, 50}

Cutoffs == {0, 200}

PerformanceTypes == {"runtime", "solution_quality", "unknown"}

None == [none |-> TRUE]

NoExc == [exc |-> "none"]

Exc(name) == [exc |-> name]

Range(s) == {s[n] : n \in DOMAIN s}

\* every duplicate-free list of at most MaxAlgos algorithm names
AlgoLists == {s \in UNION {[1..n -> Algos] : n \in 0..MaxAlgos} :
                  \A a, b \in DOMAIN s : a # b => s[a] # s[b]}

\* the list A1..An
Prefix(n) == [k \in 1..n |-> AlgoNames[k]]

\* an ASlibScenario: the fields the core reads
Scenario(algs, insts, perf, ptype, maxi, cutoff) ==
    [algorithms |-> algs, instances |-> insts, performance_data |-> perf,
     performance_type |-> ptype, maximize |-> maxi,
     algorithm_cutoff_time |-> cutoff]

\* the end-to-end scenario: runtimes A1 = [1,100,50], A2 = [100,1,50], cutoff 200
E2EInstances == <<"inst1", "inst2", "inst3">>

E2EPerf == [t \in Range(E2EInstances) |->
              [a \in {"A1", "A2"} |->
                 CASE t = "inst1" -> IF a = "A1" THEN 1 ELSE 100
                   [] t = "inst2" -> IF a = "A1" THEN 100 ELSE 1
                   [] OTHER -> 50]]

E2EScenario == Scenario(<<"A1", "A2">>, E2EInstances, E2EPerf, "runtime", FALSE, 200)

\* one-instance scenarios over the algorithms A1..An, every performance row
SmallScenarios ==
    {Scenario(Prefix(n), <<"inst1">>, [t \in {"inst1"} |-> row], pt, mx, c) :
        <<n, row, pt, mx, c>> \in
            UNION {{<<n, row, pt, mx, c>> :
                       row \in [Range(Prefix(n)) -> PerfValues],
                       pt \in {"runtime", "solution_quality"},
                       mx \in BOOLEAN, c \in {200}} :
                   n \in 0..MaxAlgos}}

TrainScenarios == SmallScenarios \cup {E2EScenario}

\* what predict reads of a scenario: its algorithms, instances and cutoff
TestView(s) ==
    Scenario(s.algorithms, s.instances, <<>>, "runtime", FALSE, s.algorithm_cutoff_time)

\* the scenarios predict is called on: any algorithm list with the cutoff of
\* the training data, the lists A1..An without a cutoff too, and the training
\* data itself
TestScenarios(training) ==
    {Scenario(al, <<"inst1">>, <<>>, "runtime", FALSE, 200) : al \in AlgoLists}
    \cup {Scenario(Prefix(n), <<"inst1">>, <<>>, "runtime", FALSE, 0) : n \in 0..MaxAlgos}
    \cup {TestView(training)}

\* what a fitted pre-solver may answer: a static schedule
PreSeqs == {<< <<"A2", Num(5)>>, <<"A1", Num(10)>> >>}

Configs == [selector : {"PairwiseClassifier", "other"},
            classifier : {"RandomForest", "other"}]

-----------------------------------------------------------------------------
(* PairwiseClassifier                                                      *)

\* mutant: the classifier list is the one of the selector fitted before
NewSelector_Shared(classifier_class) ==
    [classifiers |-> IF selector = None THEN <<>> ELSE selector.classifiers,
     classifier_class |-> classifier_class,
     algorithms |-> None]

\* __init__: an empty classifier list; self.algorithms is not set yet
NewSelector(classifier_class) ==
    [classifiers |-> <<>>, classifier_class |-> classifier_class,
     algorithms |-> None]

\* the column of algorithm number i (0-based), one value per instance
Column(scenario, i) ==
    [k \in DOMAIN scenario.instances |->
        scenario.performance_data[scenario.instances[k]][scenario.algorithms[i + 1]]]

Abs(x) == IF x < 0 THEN -x ELSE x

\* mutant: a tie is labelled 1
Labels_NonStrict(y_i, y_j) == [k \in DOMAIN y_i |-> IF y_i[k] <= y_j[k] THEN 1 ELSE 0]

\* y = y_i < y_j, as 1 / 0
Labels(y_i, y_j) == [k \in DOMAIN y_i |-> IF y_i[k] < y_j[k] THEN 1 ELSE 0]

\* weights = np.abs(y_i - y_j)
Weights(y_i, y_j) == [k \in DOMAIN y_i |-> Abs(y_i[k] - y_j[k])]

\* clf = classifier_class(); clf.fit(X, y, config, weights): the fitted
\* classifier remembers what it was fitted on
FittedClf(scenario, config, i, j) ==
    [X |-> scenario.instances,
     y |-> Labels(Column(scenario, i), Column(scenario, j)),
     weights |-> Weights(Column(scenario, i), Column(scenario, j)),
     pair |-> <<i, j>>]

\* for j in range(from, n_algos): append the classifier of (i, j)
RECURSIVE FitInner(_, _, _, _, _)
FitInner(clfs, scenario, config, i, j) ==
    IF j >= Len(scenario.algorithms) THEN clfs
    ELSE FitInner(Append(clfs, FittedClf(scenario, config, i, j)),
                  scenario, config, i, j + 1)

\* mutant: the inner loop starts at i, pairing an algorithm with itself
InnerStart_Self(i) == i

\* the first j of the inner loop: range(i + 1, n_algos)
InnerStart(i) == i + 1

\* for i in range(n_algos)
RECURSIVE FitOuter(_, _, _, _)
FitOuter(clfs, scenario, config, i) ==
    IF i >= Len(scenario.algorithms) THEN clfs
    ELSE FitOuter(FitInner(clfs, scenario, config, i, InnerStart(i)),
                  scenario, config, i + 1)

\* PairwiseClassifier.fit
PairwiseFit(self, scenario, config) ==
    [self EXCEPT !.algorithms = scenario.algorithms,
                 !.classifiers = FitOuter(self.classifiers, scenario, config, 0)]

\* cutoff = scenario.algorithm_cutoff_time if it is truthy, else 2**31
PredictCutoff(scenario) ==
    IF scenario.algorithm_cutoff_time # 0 THEN Num(scenario.algorithm_cutoff_time)
    ELSE NoCutoff

\* scores = np.zeros((X.shape[0], n_algos)): rows 1..instances, columns 0..n_algos-1
Zeros(rows, n_algos) == [r \in 1..rows |-> [c \in 0..(n_algos - 1) |-> 0]]

\* scores[Y == 1, i] += 1; scores[Y == 0, j] += 1
Vote(sc, Y, i, j) ==
    [r \in DOMAIN sc |->
        [c \in DOMAIN sc[r] |->
            sc[r][c] + (IF c = i /\ Y[r] = 1 THEN 1 ELSE 0)
                     + (IF c = j /\ Y[r] = 0 THEN 1 ELSE 0)]]

\* for j in range(from, n_algos): clf = self.classifiers[clf_indx] (IndexError
\* past the end); Y = clf.predict(X) is Yout[clf_indx + 1]
RECURSIVE PredictInner(_, _, _, _, _, _)
PredictInner(st, self, n_algos, Yout, i, j) ==
    IF st.exc # "none" \/ j >= n_algos THEN st
    ELSE IF st.clf_indx >= Len(self.classifiers)
         THEN [st EXCEPT !.exc = "IndexError"]
         ELSE PredictInner(
                 [st EXCEPT !.scores = Vote(st.scores, Yout[st.clf_indx + 1], i, j),
                            !.clf_indx = st.clf_indx + 1],
                 self, n_algos, Yout, i, j + 1)

\* for i in range(n_algos)
RECURSIVE PredictOuter(_, _, _, _, _)
PredictOuter(st, self, n_algos, Yout, i) ==
    IF st.exc # "none" \/ i >= n_algos THEN st
    ELSE PredictOuter(PredictInner(st, self, n_algos, Yout, i, i + 1),
                      self, n_algos, Yout, i + 1)

\* mutant: a later column with as many votes replaces the running best
Better_OrEqual(row, c, best) == row[c] >= row[best]

\* whether column c replaces the running best: np.argmax keeps the first maximum
Better(row, c, best) == row[c] > row[best]

\* np.argmax of one row of n columns, n >= 1
RECURSIVE ArgmaxFrom(_, _, _, _)
ArgmaxFrom(row, n, c, best) ==
    IF c >= n THEN best
    ELSE ArgmaxFrom(row, n, c + 1, IF Better(row, c, best) THEN c ELSE best)

Argmax(row, n) == ArgmaxFrom(row, n, 1, 0)

\* str(inst): the instance identifiers of the model are Python strings, and
\* str of a string is that string
Str(inst) == inst

\* dict(...) over the zipped pairs, in order: a later equal key replaces an earlier one
RECURSIVE DictOf(_, _, _)
DictOf(keys, vals, k) ==
    IF k = 0 THEN <<>>
    ELSE LET d == DictOf(keys, vals, k - 1)
         IN  [x \in (DOMAIN d) \cup {keys[k]} |-> IF x = keys[k] THEN vals[k] ELSE d[x]]

\* the algorithm list predict reads the selected names from
PredictAlgorithms(self, scenario) == scenario.algorithms

\* the number of classifier outputs predict asks for
NumUsed(self, scenario) ==
    LET n == Len(scenario.algorithms)
        p == (n * (n - 1)) \div 2
    IN  IF p <= Len(self.classifiers) THEN p ELSE Len(self.classifiers)

\* mutant: the classifiers predict has consulted are taken off the list
SelfAfterPredict_Consumed(self, clf_indx) ==
    [self EXCEPT !.classifiers = SubSeq(@, clf_indx + 1, Len(@))]

\* the selector when predict leaves: predict indexes self.classifiers
\* (line 97) and assigns no attribute of self
SelfAfterPredict(self, clf_indx) == self

\* PairwiseClassifier.predict; Yout[c] is what classifier c - 1 answers on X
PairwisePredict(self, scenario, Yout) ==
    LET n_algos == Len(scenario.algorithms)
        rows    == Len(scenario.instances)
        cutoff  == PredictCutoff(scenario)
        st      == PredictOuter([scores |-> Zeros(rows, n_algos), clf_indx |-> 0,
                                 exc |-> "none"], self, n_algos, Yout, 0)
        algo_indx == [r \in 1..rows |-> Argmax(st.scores[r], n_algos)]
        names   == PredictAlgorithms(self, scenario)
        picks   == [r \in 1..rows |-> << <<names[algo_indx[r] + 1], PlusOne(cutoff)>> >>]
        keys    == [r \in 1..rows |-> Str(scenario.instances[r])]
        after   == SelfAfterPredict(self, st.clf_indx)
    IN  IF st.exc # "none"
        THEN [exc |-> st.exc, scores |-> st.scores, schedules |-> None,
              self |-> after]
        ELSE IF n_algos = 0
        THEN [exc |-> "ValueError", scores |-> st.scores, schedules |-> None,
              self |-> after]
        ELSE [exc |-> "none", scores |-> st.scores,
              schedules |-> DictOf(keys, picks, rows), self |-> after]

-----------------------------------------------------------------------------
(* AutoFolio.fit and AutoFolio.predict                                     *)

\* a preprocessing stage's fit_transform / transform: it rewrites feature
\* values, which leaves the instances, algorithms and performances as they are
Transform(stage, scenario) == scenario

Stages == <<"fgf", "imputer", "scaler", "pca">>

\* fit_transform_feature_preprocessing: the four stages in their fixed order
FitTransformFeaturePreprocessing(scenario, config) ==
    [scenario |-> Transform("pca", Transform("scaler",
                      Transform("imputer", Transform("fgf", scenario)))),
     pipeline |-> Stages]

\* fit_pre_solving: an Aspeed fitted on the scenario when the objective is runtime
FitPreSolving(scenario, config) ==
    IF scenario.performance_type = "runtime"
    THEN [aspeed |-> TRUE, fitted_on |-> scenario.instances]
    ELSE None

\* fit_selector
FitSelector(scenario, config) ==
    IF config.selector = "PairwiseClassifier"
    THEN LET clf_class == IF config.classifier = "RandomForest"
                          THEN "RandomForest" ELSE "None"
         IN  IF clf_class = "None" /\ Len(scenario.algorithms) >= 2
             THEN [exc |-> "TypeError", selector |-> None]
             ELSE [exc |-> "none",
                   selector |-> PairwiseFit(NewSelector(clf_class), scenario, config)]
    ELSE [exc |-> "UnboundLocalError", selector |-> None]

\* AutoFolio.fit; self.overwrite_args is None (only run_cli sets it), so the
\* configuration is used as given
AutoFolioFit(scenario, config) ==
    LET pre == FitTransformFeaturePreprocessing(scenario, config)
        sel == FitSelector(pre.scenario, config)
    IN  [exc |-> sel.exc,
         feature_pre_pipeline |-> pre.pipeline,
         pre_solver |-> FitPreSolving(pre.scenario, config),
         selector |-> sel.selector]

\* for f_pre in feature_pre_pipeline: scenario = f_pre.transform(scenario)
RECURSIVE TransformAll(_, _, _)
TransformAll(pipeline, scenario, k) ==
    IF k > Len(pipeline) THEN scenario
    ELSE TransformAll(pipeline, Transform(pipeline[k], scenario), k + 1)

\* pre_solving_schedule.get(inst, [])
Get(d, key) == IF key \in DOMAIN d THEN d[key] ELSE <<>>

\* mutant: the selector's entry is put before the pre-solving entries
Combined_SelectorFirst(pre_solving_schedule, pred) ==
    [inst \in DOMAIN pred |->
        pred[inst] \o (IF inst \in DOMAIN pre_solving_schedule
                       THEN pre_solving_schedule[inst] ELSE <<>>)]

\* the combined schedule when the pre-solving schedule is not empty
Combined(pre_solving_schedule, pred) ==
    [inst \in DOMAIN pred |-> Get(pre_solving_schedule, inst) \o pred[inst]]

\* lines 486-490: combine schedules
Combine(pre_solving_schedule, pred) ==
    IF DOMAIN pre_solving_schedule # {} THEN Combined(pre_solving_schedule, pred)
    ELSE pred

\* AutoFolio.predict; pre_out is what pre_solver.predict answers, Yout what
\* the classifiers answer.  The last three fields are the arguments as the
\* call leaves them: the pipeline list is only iterated (lines 476-477), the
\* pre-solver only asked (line 480), the selector as selector.predict leaves it
AutoFolioPredict(scenario, config, pipeline, presolver, sel, pre_out, Yout) ==
    LET sc   == TransformAll(pipeline, scenario, 1)
        pss  == IF presolver # None THEN pre_out ELSE <<>>
        pred == PairwisePredict(sel, sc, Yout)
    IN  [exc |-> pred.exc, scores |-> pred.scores,
         pre_solving_schedule |-> pss,
         pred_schedules |-> pred.schedules,
         schedules |-> IF pred.exc # "none" THEN None
                       ELSE Combine(pss, pred.schedules),
         feature_pre_pipeline |-> pipeline,
         pre_solver |-> presolver,
         selector |-> pred.self]

\* what pre_solver.predict may answer for a scenario: the empty schedule, or
\* one static schedule for some of the instances
PreOutputs(scenario) ==
    {<<>>} \cup
    UNION {[D -> {s}] : <<D, s>> \in
              ((SUBSET {Str(t) : t \in Range(scenario.instances)}) \ {{}}) \X PreSeqs}

\* what the classifiers may answer: 0 or 1 for every instance
ClfOutputs(sel, scenario) ==
    [1..NumUsed(sel, scenario) -> [1..Len(scenario.instances) -> {0, 1}]]

-----------------------------------------------------------------------------
(* A session of fit and predict calls                                      *)

Init ==
    /\ pc = "new"
    /\ train = None
    /\ feature_pre_pipeline = None
    /\ pre_solver = None
    /\ selector = None
    /\ call = None
    /\ scores = None
    /\ pred_schedules = None
    /\ schedules = None
    /\ raised = NoExc
    /\ cv = None

\* feature_pre_pipeline, pre_solver, selector = self.fit(scenario, config);
\* fit reads nothing of an earlier call
Fit ==
    /\ call = None
    /\ \E scenario \in TrainScenarios, config \in Configs :
          LET r == AutoFolioFit(scenario, config)
          IN  /\ train' = [scenario |-> scenario, config |-> config]
              /\ raised' = Exc(r.exc)
              /\ pc' = IF r.exc = "none" THEN "fitted" ELSE "failed"
              /\ feature_pre_pipeline' = IF r.exc = "none" THEN r.feature_pre_pipeline ELSE None
              /\ pre_solver' = IF r.exc = "none" THEN r.pre_solver ELSE None
              /\ selector' = IF r.exc = "none" THEN r.selector ELSE None
    /\ call' = None
    /\ scores' = None
    /\ pred_schedules' = None
    /\ schedules' = None
    /\ UNCHANGED cv

\* schedules = self.predict(scenario, config, feature_pre_pipeline, pre_solver, selector);
\* the fitted pre-solver and classifiers are functions: asked again about the
\* same scenario they answer the same.  call.again tells a first predict on
\* the fitted triple from a repeated one
Predict ==
    /\ pc = "fitted"
    /\ call # None => ~call.again
    /\ \E scenario \in (IF call = None THEN TestScenarios(train.scenario)
                        ELSE {call.scenario}) :
       \E pre_out \in (IF call # None THEN {call.pre_out}
                       ELSE IF pre_solver # None THEN PreOutputs(scenario)
                       ELSE {<<>>}) :
       \E Yout \in (IF call = None THEN ClfOutputs(selector, scenario)
                    ELSE {call.Yout}) :
          LET r == AutoFolioPredict(scenario, train.config, feature_pre_pipeline,
                                    pre_solver, selector, pre_out, Yout)
          IN  /\ call' = [scenario |-> scenario, Yout |-> Yout, pre_out |-> pre_out,
                          pre_solving_schedule |-> r.pre_solving_schedule,
                          again |-> call # None]
              /\ raised' = Exc(r.exc)
              /\ scores' = r.scores
              /\ pred_schedules' = r.pred_schedules
              /\ schedules' = r.schedules
              /\ feature_pre_pipeline' = r.feature_pre_pipeline
              /\ pre_solver' = r.pre_solver
              /\ selector' = r.selector
    /\ UNCHANGED <<pc, train, cv>>

Next == Fit \/ Predict

Spec == Init /\ [][Next]_vars

-----------------------------------------------------------------------------
(* AutoFolio.run_cv, one step per statement of the fold loop               *)

\* the value a fold's validation may report
StatValues == {1, 5}

\* the scenarios run_cv is called on: the end-to-end data under every
\* objective type, direction and cutoff
CVScenarios ==
    {[E2EScenario EXCEPT !.performance_type = pt, !.maximize = mx,
                         !.algorithm_cutoff_time = c] :
        pt \in PerformanceTypes, mx \in BOOLEAN, c \in Cutoffs}

\* the stage of fit that raises a ValueError on the fold's data, if any
FitFaults == {"none", "imputer"}

\* the instances of `insts` whose fold is (keep) or is not (~keep) fold i
RECURSIVE Part(_, _, _, _)
Part(insts, assign, i, keep) ==
    IF insts = <<>> THEN <<>>
    ELSE LET rest == Part(Tail(insts), assign, i, keep)
         IN  IF (assign[Head(insts)] = i) = keep THEN <<Head(insts)>> \o rest
             ELSE rest

\* scenario.get_split(indx = i): the test partition is the instances the split
\* scheme gives to fold i, the training partition the others
GetSplit(scenario, assign, i) ==
    [test |-> [scenario EXCEPT !.instances = Part(scenario.instances, assign, i, TRUE)],
     training |-> [scenario EXCEPT !.instances = Part(scenario.instances, assign, i, FALSE)]]

\* Stats(runtime_cutoff = ...): an accumulator; merge adds a fold's value and
\* show reports the total
NewStats(runtime_cutoff) == [runtime_cutoff |-> runtime_cutoff, total |-> 0]

Merge(cv_stat, stat) == [cv_stat EXCEPT !.total = @ + stat]

Show(cv_stat) == cv_stat.total

\* lines 266-269
InitialStats(scenario) ==
    IF scenario.performance_type = "runtime"
    THEN NewStats(scenario.algorithm_cutoff_time)
    ELSE NewStats(0)

\* mutant: the except branch ignores the direction
FallbackPar10_Unsigned(scenario) == scenario.algorithm_cutoff_time * 10

\* lines 296-299: the value the except branch assigns
FallbackPar10(scenario) ==
    IF ~scenario.maximize THEN scenario.algorithm_cutoff_time * 10
    ELSE scenario.algorithm_cutoff_time * (-10)

\* lines 301-302
FlipIfMaximize(scenario, par10) == IF scenario.maximize THEN par10 * (-1) ELSE par10

Event(op, fold, on) == [op |-> op, fold |-> fold, on |-> on]

\* the calls AutoFolio.fit makes on the training partition, in order, up to
\* the stage that raises
FitEvents(training, config, fold, fault) ==
    LET on == training.instances
        pre == <<Event("fit_transform:fgf", fold, on),
                 Event("fit_transform:imputer", fold, on)>>
        post == <<Event("fit_transform:scaler", fold, on),
                  Event("fit_transform:pca", fold, on)>>
        aspeed == IF training.performance_type = "runtime"
                  THEN <<Event("fit:aspeed", fold, on)>> ELSE <<>>
        sel == IF config.selector = "PairwiseClassifier"
               THEN <<Event("fit:selector", fold, on)>> ELSE <<>>
    IN  <<Event("fit", fold, on)>> \o
        (IF fault = "imputer" THEN pre ELSE pre \o post \o aspeed \o sel)

InitCV ==
    /\ pc = "cv_start"
    /\ train = None
    /\ feature_pre_pipeline = None
    /\ pre_solver = None
    /\ selector = None
    /\ call = None
    /\ scores = None
    /\ pred_schedules = None
    /\ schedules = None
    /\ raised = NoExc
    /\ \E scenario \in CVScenarios, config \in Configs, folds \in 0..MaxFolds :
       \E assign \in [Range(scenario.instances) -> 1..(IF folds = 0 THEN 1 ELSE folds)] :
          cv = [scenario |-> scenario, config |-> config, folds |-> folds,
                assign |-> assign, i |-> 0, test |-> None, training |-> None,
                cv_stat |-> None, par10 |-> None, log |-> <<>>]

\* lines 265-269: enter the try block and create the accumulator
CvBegin ==
    /\ pc = "cv_start"
    /\ cv' = [cv EXCEPT !.cv_stat = InitialStats(cv.scenario), !.i = 1]
    /\ pc' = "cv_loop"
    /\ UNCHANGED <<train, feature_pre_pipeline, pre_solver, selector, call,
                   scores, pred_schedules, schedules, raised>>

\* mutant: range(1, folds)
LastFold_Short(folds) == folds - 1

\* the last index of range(1, folds + 1)
LastFold(folds) == folds

\* lines 270-272: the next fold's split
CvSplit ==
    /\ pc = "cv_loop"
    /\ cv.i <= LastFold(cv.folds)
    /\ LET sp == GetSplit(cv.scenario, cv.assign, cv.i)
       IN  cv' = [cv EXCEPT !.test = sp.test, !.training = sp.training,
                            !.log = Append(@, Event("get_split", cv.i,
                                                    cv.scenario.instances))]
    /\ pc' = "cv_fit"
    /\ UNCHANGED <<train, feature_pre_pipeline, pre_solver, selector, call,
                   scores, pred_schedules, schedules, raised>>

\* lines 274-275: self.fit on the training partition; a ValueError goes to
\* the except branch, any other exception leaves run_cv
CvFit ==
    /\ pc = "cv_fit"
    /\ \E fault \in FitFaults :
          LET r == AutoFolioFit(cv.training, cv.config)
              exc == IF fault # "none" THEN "ValueError" ELSE r.exc
          IN  /\ train' = [scenario |-> cv.training, config |-> cv.config]
              /\ feature_pre_pipeline' = IF exc = "none" THEN r.feature_pre_pipeline ELSE None
              /\ pre_solver' = IF exc = "none" THEN r.pre_solver ELSE None
              /\ selector' = IF exc = "none" THEN r.selector ELSE None
              /\ cv' = [cv EXCEPT !.log = @ \o FitEvents(cv.training, cv.config,
                                                         cv.i, fault)]
              /\ raised' = IF exc \in {"none", "ValueError"} THEN NoExc ELSE Exc(exc)
              /\ pc' = CASE exc = "none" -> "cv_predict"
                         [] exc = "ValueError" -> "cv_except"
                         [] OTHER -> "cv_raised"
    /\ call' = None
    /\ scores' = None
    /\ pred_schedules' = None
    /\ schedules' = None

\* lines 277-278: self.predict on the test partition
CvPredict ==
    /\ pc = "cv_predict"
    /\ \E pre_out \in (IF pre_solver # None THEN PreOutputs(cv.test) ELSE {<<>>}) :
       \E Yout \in ClfOutputs(selector, cv.test) :
          LET r == AutoFolioPredict(cv.test, cv.config, feature_pre_pipeline,
                                    pre_solver, selector, pre_out, Yout)
          IN  /\ call' = [scenario |-> cv.test, Yout |-> Yout, pre_out |-> pre_out,
                          pre_solving_schedule |-> r.pre_solving_schedule, again |-> FALSE]
              /\ feature_pre_pipeline' = r.feature_pre_pipeline
              /\ pre_solver' = r.pre_solver
              /\ selector' = r.selector
              /\ scores' = r.scores
              /\ pred_schedules' = r.pred_schedules
              /\ schedules' = r.schedules
              /\ raised' = IF r.exc \in {"none", "ValueError"} THEN NoExc ELSE Exc(r.exc)
              /\ pc' = CASE r.exc = "none" -> "cv_validate"
                         [] r.exc = "ValueError" -> "cv_except"
                         [] OTHER -> "cv_raised"
    /\ cv' = [cv EXCEPT !.log = Append(@, Event("predict", cv.i, cv.test.instances))]
    /\ UNCHANGED train

\* lines 280-289: validate by objective type and merge, or raise ValueError
CvValidate ==
    /\ pc = "cv_validate"
    /\ \/ /\ cv.scenario.performance_type \in {"runtime", "solution_quality"}
          /\ \E stats \in StatValues :
                cv' = [cv EXCEPT !.cv_stat = Merge(@, stats), !.i = @ + 1,
                                 !.log = Append(@, Event("validate", cv.i,
                                                         cv.test.instances))]
          /\ pc' = "cv_loop"
       \/ /\ cv.scenario.performance_type \notin {"runtime", "solution_quality"}
          /\ cv' = [cv EXCEPT !.log = Append(@, Event("raise ValueError", cv.i, <<>>))]
          /\ pc' = "cv_except"
    /\ UNCHANGED <<train, feature_pre_pipeline, pre_solver, selector, call,
                   scores, pred_schedules, schedules, raised>>

\* lines 291-293: after the last fold, par10 = cv_stat.show()
CvShow ==
    /\ pc = "cv_loop"
    /\ cv.i > LastFold(cv.folds)
    /\ cv' = [cv EXCEPT !.par10 = Show(cv.cv_stat)]
    /\ pc' = "cv_flip"
    /\ UNCHANGED <<train, feature_pre_pipeline, pre_solver, selector, call,
                   scores, pred_schedules, schedules, raised>>

\* lines 294-299: except ValueError
CvExcept ==
    /\ pc = "cv_except"
    /\ cv' = [cv EXCEPT !.par10 = FallbackPar10(cv.scenario),
                        !.log = Append(@, Event("except", cv.i, <<>>))]
    /\ pc' = "cv_flip"
    /\ UNCHANGED <<train, feature_pre_pipeline, pre_solver, selector, call,
                   scores, pred_schedules, schedules, raised>>

\* lines 301-304: flip the sign when maximizing and return
CvReturn ==
    /\ pc = "cv_flip"
    /\ cv' = [cv EXCEPT !.par10 = FlipIfMaximize(cv.scenario, @)]
    /\ pc' = "cv_done"
    /\ UNCHANGED <<train, feature_pre_pipeline, pre_solver, selector, call,
                   scores, pred_schedules, schedules, raised>>

NextCV == CvBegin \/ CvSplit \/ CvFit \/ CvPredict \/ CvValidate \/ CvShow
          \/ CvExcept \/ CvReturn

SpecCV == InitCV /\ [][NextCV]_vars

-----------------------------------------------------------------------------
(* Properties of the selector and of the combined schedule                 *)

Fitted == pc = "fitted"

\* predict returned a schedule
Predicted == call # None /\ raised = NoExc

FitAlgorithms == train.scenario.algorithms

\* (i, j) comes before (k, l) when i < k, or i = k and j < l
PairBefore(p, q) == p[1] < q[1] \/ (p[1] = q[1] /\ p[2] < q[2])

\* C1: for A >= 2 algorithms fit leaves A*(A-1)/2 classifiers, one per pair
\* i < j, in the order i ascending then j ascending; predict's vote matrix has
\* one row per instance and one column per algorithm of the scenario.
C1_PairCountAndShape ==
    /\ (Fitted /\ Len(FitAlgorithms) >= 2) =>
          LET A == Len(FitAlgorithms)
              clfs == selector.classifiers
          IN  /\ 2 * Len(clfs) = A * (A - 1)
              /\ \A k \in DOMAIN clfs :
                    /\ clfs[k].pair[1] \in 0..(A - 1)
                    /\ clfs[k].pair[2] \in 0..(A - 1)
                    /\ clfs[k].pair[1] < clfs[k].pair[2]
              /\ \A k, l \in DOMAIN clfs :
                    k < l => PairBefore(clfs[k].pair, clfs[l].pair)
    /\ call # None =>
          /\ DOMAIN scores = 1..Len(call.scenario.instances)
          /\ \A r \in DOMAIN scores :
                /\ DOMAIN scores[r] = 0..(Len(call.scenario.algorithms) - 1)
                /\ (call.scenario.algorithms = selector.algorithms
                      => Cardinality(DOMAIN scores[r]) = Len(FitAlgorithms))

\* three algorithms were fitted on and a whole vote matrix was built for them
C1_Witness ==
    /\ Fitted /\ Len(FitAlgorithms) = 3 /\ Len(selector.classifiers) = 3
    /\ Predicted /\ call.scenario.algorithms = selector.algorithms
    /\ Len(call.scenario.instances) >= 1

\* the position (0-based) of a name in a duplicate-free list
IndexOf(name, list) == (CHOOSE k \in DOMAIN list : list[k] = name) - 1

\* the algorithm selected for the instance of row r
Selected(r) == pred_schedules[Str(call.scenario.instances[r])][1][1]

C3_Combiner ==
    Predicted =>
        /\ DOMAIN schedules = DOMAIN pred_schedules
        /\ \A inst \in DOMAIN pred_schedules :
              schedules[inst] =
                 (IF inst \in DOMAIN call.pre_solving_schedule
                  THEN call.pre_solving_schedule[inst] ELSE <<>>)
                 \o pred_schedules[inst]
        /\ (call.pre_solving_schedule = <<>> => schedules = pred_schedules)

\* a pre-solving schedule that covers one instance and misses another
C3_Witness ==
    /\ Predicted
    /\ \E a, b \in DOMAIN schedules :
          /\ a \in DOMAIN call.pre_solving_schedule
          /\ b \notin DOMAIN call.pre_solving_schedule
          /\ Len(schedules[a]) = 3
          /\ Len(schedules[b]) = 1

\* C6: predict on a scenario whose algorithm list is not the list of the
\* (two or more) algorithms fitted on raises and returns no schedule.
C6_MismatchRaises ==
    (/\ call # None
     /\ Len(selector.algorithms) >= 2
     /\ call.scenario.algorithms # selector.algorithms) =>
        (raised # NoExc /\ pred_schedules = None /\ schedules = None)

\* C7: fit never completes on a scenario with fewer than two algorithms, so
\* it never leaves a fitted selector with an empty classifier list.
C7_FewAlgorithmsRejected ==
    Fitted => (Len(FitAlgorithms) >= 2 /\ selector.classifiers # <<>>)

E2ESchedule ==
    [t \in Range(E2EInstances) |->
        << <<IF t = "inst1" THEN "A1" ELSE "A2", Num(201)>> >>]

\* C9: fitted on the end-to-end scenario the single classifier has labels
\* [1, 0, 0]; when it answers its training labels on the same data, predict
\* returns inst1 -> [(A1, 201)], inst2 -> [(A2, 201)], inst3 -> [(A2, 201)].
C9_EndToEnd ==
    (Fitted /\ train.scenario = E2EScenario) =>
        /\ Len(selector.classifiers) = 1
        /\ selector.classifiers[1].y = <<1, 0, 0>>
        /\ (/\ Predicted
            /\ call.scenario = TestView(E2EScenario)
            /\ call.Yout[1] = selector.classifiers[1].y)
              => /\ pred_schedules = E2ESchedule
                 /\ (call.pre_solving_schedule = <<>> => schedules = E2ESchedule)

C9_Witness ==
    /\ Fitted /\ train.scenario = E2EScenario
    /\ Predicted /\ call.scenario = TestView(E2EScenario)
    /\ call.Yout[1] = selector.classifiers[1].y
    /\ call.pre_solving_schedule = <<>>
    /\ schedules = E2ESchedule

\* C12: a predict call leaves the fitted triple as it was: the selector's
\* classifier sequence (length, order, members) and its fit-time algorithm
\* list, the preprocessing pipeline list and the pre-solver are the same after
\* the call as before it, a first call and a repeated one alike, so after any
\* number of predict calls they are what fit returned.
C12_PredictLeavesFitted ==
    [][call' # None =>
          /\ selector'.classifiers = selector.classifiers
          /\ selector'.algorithms = selector.algorithms
          /\ selector' = selector
          /\ feature_pre_pipeline' = feature_pre_pipeline
          /\ pre_solver' = pre_solver]_vars

\* predict has returned a second time on a selector of three classifiers
\* fitted with a pre-solver
C12_Witness ==
    /\ Predicted /\ call.again
    /\ Len(selector.classifiers) = 3
    /\ selector.algorithms = FitAlgorithms
    /\ feature_pre_pipeline = Stages
    /\ pre_solver # None

\* algorithm value a is strictly better than b under the scenario's convention
StrictlyBetter(scenario, a, b) == IF scenario.maximize THEN a > b ELSE a < b

\* C10: for every pair i < j and training instance the label is 1 exactly
\* when algorithm i is strictly better than algorithm j under the scenario's
\* maximize/minimize convention, and the weight is |performance(i) - performance(j)|.
C10_LabelsFollowConvention ==
    Fitted =>
        \A c \in DOMAIN selector.classifiers :
            LET clf == selector.classifiers[c]
                y_i == Column(train.scenario, clf.pair[1])
                y_j == Column(train.scenario, clf.pair[2])
            IN  \A k \in DOMAIN clf.y :
                   /\ clf.y[k] = (IF StrictlyBetter(train.scenario, y_i[k], y_j[k])
                                  THEN 1 ELSE 0)
                   /\ clf.weights[k] = (IF y_i[k] >= y_j[k] THEN y_i[k] - y_j[k]
                                        ELSE y_j[k] - y_i[k])

-----------------------------------------------------------------------------
(* Properties of run_cv                                                    *)

Logged(op) == \E n \in DOMAIN cv.log : cv.log[n].op = op

CvDone == pc = "cv_done"

\* C4 as stated: after a ValueError inside a fold run_cv returns cutoff * 10
\* when the scenario is not maximizing and cutoff * -10 when it is.
C4_FallbackSigned ==
    (CvDone /\ Logged("except")) =>
        cv.par10 = (IF ~cv.scenario.maximize
                    THEN cv.scenario.algorithm_cutoff_time * 10
                    ELSE cv.scenario.algorithm_cutoff_time * (-10))

\* C4 (amended): a ValueError inside a fold never leaves run_cv, and the value
\* returned is cutoff * 10 whether or not the scenario is maximizing.
C4_FallbackValue ==
    /\ raised.exc # "ValueError"
    /\ Logged("except") => (pc \in {"cv_flip", "cv_done"} /\ raised = NoExc)
    /\ (CvDone /\ Logged("except")) =>
          cv.par10 = cv.scenario.algorithm_cutoff_time * 10

\* a maximizing scenario with an unknown objective type fell back to 2000
C4_Witness ==
    /\ CvDone /\ Logged("except") /\ Logged("raise ValueError")
    /\ cv.scenario.maximize
    /\ cv.scenario.algorithm_cutoff_time = 200
    /\ cv.par10 = 2000

CoreOps == {"get_split", "fit", "predict"}

IsCore(e) == e.op \in CoreOps

\* the split, fit and predict calls of the log, in order
CoreCalls == SelectSeq(cv.log, IsCore)

\* split, fit on the training partition, predict on the test partition, for
\* the folds 1..m in ascending order
RECURSIVE ExpectedCalls(_)
ExpectedCalls(m) ==
    IF m <= 0 THEN <<>>
    ELSE LET sp == GetSplit(cv.scenario, cv.assign, m)
         IN  ExpectedCalls(m - 1) \o
             <<Event("get_split", m, cv.scenario.instances),
               Event("fit", m, sp.training.instances),
               Event("predict", m, sp.test.instances)>>

IsPrefix(a, b) == Len(a) <= Len(b) /\ a = SubSeq(b, 1, Len(a))

\* C5 as stated: every execution with k >= 1 folds (here: every one that
\* returns) has made exactly the calls split, fit, predict for each of the
\* folds 1..k.
C5_AlwaysAllFolds ==
    (CvDone /\ cv.folds >= 1) =>
        CoreCalls = ExpectedCalls(cv.folds)

\* C5 (amended): the splits are requested for the fold indices 1, 2, ... in
\* ascending order, at most k of them, each followed by one fit on that fold's
\* training partition and then one predict on its test partition before the
\* next split; all k folds are run when no exception is raised inside a fold.
C5_FoldOrder ==
    /\ pc # "cv_start" => IsPrefix(CoreCalls, ExpectedCalls(cv.folds))
    /\ (CvDone /\ ~Logged("except")) => CoreCalls = ExpectedCalls(cv.folds)

\* two folds were run to the end
C5_Witness ==
    /\ CvDone /\ ~Logged("except") /\ cv.folds = 2
    /\ Len(CoreCalls) = 6
    /\ CoreCalls[4].op = "get_split" /\ CoreCalls[4].fold = 2

FittingOps == {"fit_transform:fgf", "fit_transform:imputer", "fit_transform:scaler",
               "fit_transform:pca", "fit:aspeed", "fit:selector"}

\* C8: with an unknown objective type, no fit_transform, pre-solver fit or
\* selector fit has run in any fold when the error is raised.
C8_FailFast ==
    (/\ cv.scenario.performance_type \notin {"runtime", "solution_quality"}
     /\ Logged("raise ValueError")) =>
        \A n \in DOMAIN cv.log : cv.log[n].op \notin FittingOps

\* the training partition of the fold run_cv is in
FoldTraining == GetSplit(cv.scenario, cv.assign, cv.i).training

\* the fold's fit has returned and its selector is the one predict is given
InFold == pc \in {"cv_predict", "cv_validate"}

\* C11: in every fold of run_cv the selector handed to predict holds exactly
\* the A*(A-1)/2 classifiers fitted on that fold's training partition, and the
\* classifiers predict consults are among them: no classifier of an earlier
\* fold is present in or consulted by a later fold's selector.
C11_FreshSelectorPerFold ==
    InFold =>
        LET A == Len(FoldTraining.algorithms)
            clfs == selector.classifiers
        IN  /\ train.scenario = FoldTraining
            /\ selector.algorithms = FoldTraining.algorithms
            /\ 2 * Len(clfs) = A * (A - 1)
            /\ \A c \in DOMAIN clfs :
                  /\ clfs[c].X = FoldTraining.instances
                  /\ clfs[c].y = Labels(Column(FoldTraining, clfs[c].pair[1]),
                                        Column(FoldTraining, clfs[c].pair[2]))
            /\ pc = "cv_validate" =>
                  /\ DOMAIN call.Yout \subseteq DOMAIN clfs
                  /\ \A c \in DOMAIN call.Yout : clfs[c].X = FoldTraining.instances

\* the second fold's predict has returned, and the two folds were fitted on
\* different, non-empty training partitions
C11_Witness ==
    /\ pc = "cv_validate" /\ cv.i = 2
    /\ Len(selector.classifiers) = 1
    /\ Len(call.Yout) = 1
    /\ FoldTraining.instances # <<>>
    /\ GetSplit(cv.scenario, cv.assign, 1).training.instances # <<>>
    /\ selector.classifiers[1].X # GetSplit(cv.scenario, cv.assign, 1).training.instances

====
